---- MODULE Spec2Model ----
(***************************************************************************)
(* Print page of the label maker (web/src/app/print/page.tsx): the grid    *)
(* capacity calculation, the sheet pagination of the print layout, the     *)
(* on-screen page preview and the page cursor with its navigation; and the *)
(* saved design state (web/src/utils/designState.ts) as the home page and  *)
(* the print page use it across page loads, reloads and navigation; the    *)
(* rasterisation of the label for printing; and the mouse handlers of the  *)
(* home page's label preview (web/src/components/LabelPreview.tsx).        *)
(*                                                                         *)
(* Lengths and counts are JavaScript numbers in the source.  They are      *)
(* modelled as exact rationals <<numerator, denominator>> in lowest terms  *)
(* with a positive denominator, so that equal numbers are equal tuples.    *)
(***************************************************************************)
EXTENDS Integers, Sequences, FiniteSets, TLC

VARIABLES
    isMounted,        \* PrintPage: isMounted state
    count,            \* PrintPage: repeat count state
    currentPage,      \* PrintPage: carousel page cursor
    labelDimensions,  \* PrintPage: label width / height in cm
    lastEvent,        \* the DOM event the page handled last
    phase,            \* print-layout evaluation: "idle", "requested", "rendered"
    layoutRequest,    \* inputs of one evaluation of the print layout
    sheets,           \* the pages array built by that evaluation
    printLayout,      \* the print-page elements rendered from the pages array
    route,            \* the page the router shows: "home" or "print"
    navPhase,         \* mounted component: "loading", "effects", "mounted",
                      \* "edited", "ready"
    arrival,          \* how the route was entered: "open", "reload", "client"
    navEvent,         \* the load / navigation step taken last
    storedDesign,     \* localStorage item 'labelmaker-design-state'
    pageRefreshing,   \* sessionStorage item 'page-refreshing' is present
    beforeunloadListener, \* this document has the beforeunload listener
    designState,      \* design held in the mounted component's state
    urlDesign,        \* design carried by the URL query parameters
    lastSaved,        \* the design saveDesignState wrote last
    isInitialized,    \* Home: isInitialized state
    urlLabel,         \* labelWidth / labelHeight query parameters of the URL
    rasterInputs,     \* PrintPage: the design inputs the raster effect watches
    inFlight,         \* generateLabelPng calls awaiting htmlToImage.toPng
    labelPngDataUrl,  \* PrintPage: labelPngDataUrl state
    calls,            \* number of generateLabelPng calls started
    lastCall,         \* the generateLabelPng call started last and its outcome
    printed,          \* what window.print() last printed each label with
    storageItem,      \* localStorage item 'labelmaker-design-state', in full
    storageOp,        \* designState.ts call made last: "none", "save", "load"
    writtenState,       \* argument of the saveDesignState call that wrote the item
    loadResult,       \* outcome of the loadDesignState call made last
    isDragging,       \* LabelPreview: isDragging state
    isResizing,       \* LabelPreview: isResizing state
    resizeDirection,  \* LabelPreview: resizeDirection state
    dragStart,        \* LabelPreview: dragStart state
    textPosition,     \* Home: textPosition state, the text box centre in %
    textSize,         \* Home: textSize state
    pointer,          \* where the mouse pointer is, in client pixels
    mouseEvent        \* the mouse event the label preview handled last

vars == <<isMounted, count, currentPage, labelDimensions, lastEvent,
          phase, layoutRequest, sheets, printLayout,
          route, navPhase, arrival, navEvent, storedDesign, pageRefreshing,
          beforeunloadListener, designState, urlDesign, lastSaved,
          isInitialized, urlLabel,
          rasterInputs, inFlight, labelPngDataUrl, calls, lastCall, printed,
          storageItem, storageOp, writtenState, loadResult,
          isDragging, isResizing, resizeDirection, dragStart, textPosition,
          textSize, pointer, mouseEvent>>

pageVars == <<isMounted, count, currentPage, labelDimensions, lastEvent>>
layoutVars == <<phase, layoutRequest, sheets, printLayout>>
navVars == <<route, navPhase, arrival, navEvent, storedDesign, pageRefreshing,
             beforeunloadListener, designState, urlDesign, lastSaved,
             isInitialized, urlLabel>>
rasterVars == <<rasterInputs, inFlight, labelPngDataUrl, calls, lastCall, printed>>
storageVars == <<storageItem, storageOp, writtenState, loadResult>>
editorVars == <<isDragging, isResizing, resizeDirection, dragStart,
                textPosition, textSize, pointer, mouseEvent>>
auxVars == <<rasterVars, storageVars, editorVars>>

----------------------------------------------------------------------------
(* Bounds of the explored inputs.                                          *)

MaxCountInput == 4      \* largest integer typed into "Repeat count"
MaxDimInput == 2        \* largest small integer typed into Width / Height
MaxRepeatCount == 20    \* largest repeat count given to the print layout
MaxPerRow == 3          \* largest per-row capacity given to the print layout
MaxPerCol == 6          \* largest per-column capacity given to the print layout

----------------------------------------------------------------------------
(* JavaScript number arithmetic, exact.                                    *)

Abs(x) == IF x < 0 THEN -x ELSE x

RECURSIVE GCD(_, _)
GCD(a, b) == IF b = 0 THEN a ELSE GCD(b, a % b)

Rat(n, d) ==
    LET g == GCD(Abs(n), Abs(d))
        s == IF d < 0 THEN -1 ELSE 1
    IN  <<(s * n) \div g, (s * d) \div g>>

I(n) == <<n, 1>>
Zero == I(0)
One == I(1)

RAdd(a, b) == Rat(a[1] * b[2] + b[1] * a[2], a[2] * b[2])
RSub(a, b) == Rat(a[1] * b[2] - b[1] * a[2], a[2] * b[2])
RMul(a, b) == Rat(a[1] * b[1], a[2] * b[2])
RDiv(a, b) == Rat(a[1] * b[2], a[2] * b[1])
RLe(a, b) == a[1] * b[2] <= b[1] * a[2]
RLt(a, b) == a[1] * b[2] < b[1] * a[2]
RGe(a, b) == RLe(b, a)
RGt(a, b) == RLt(b, a)
IsInt(a) == a[2] = 1

MathMax(a, b) == IF RGe(a, b) THEN a ELSE b
MathMin(a, b) == IF RLe(a, b) THEN a ELSE b
MathCeil(a) == -((-a[1]) \div a[2])
IntMax(a, b) == IF a >= b THEN a ELSE b
IntMin(a, b) == IF a <= b THEN a ELSE b

----------------------------------------------------------------------------
(* A4 sheet geometry, repeated in the keyboard handler, the preview and    *)
(* the print layout with the same numbers.                                 *)

a4WidthCm == I(21)
a4HeightCm == Rat(297, 10)
horizontalMargins == RMul(Rat(21, 10), I(2))
verticalMargins == RMul(Rat(297, 100), I(2))
usableWidthCm == RSub(a4WidthCm, horizontalMargins)
usableHeightCm == RSub(a4HeightCm, verticalMargins)
minSpacing == Rat(1, 10)

KeyRowCeiling == 10
KeyColCeiling == 20
PreviewRowCeiling == 10
PreviewColCeiling == 20
PrintRowCeiling == 50
PrintColCeiling == 20

\* labels * labelLength + (labels - 1) * minSpacing <= usableLength, compared
\* over the common denominator
Fits(labels, labelLength, usableLength) ==
    (labels * labelLength[1] * minSpacing[2]
        + (labels - 1) * minSpacing[1] * labelLength[2]) * usableLength[2]
    <= usableLength[1] * labelLength[2] * minSpacing[2]

\* for (labels = 2; labels <= ceiling; labels++) { fits ? maxLabels = labels : break }
RECURSIVE FitLoop(_, _, _, _, _)
FitLoop(labelLength, usableLength, labels, ceiling, maxLabels) ==
    IF labels > ceiling THEN maxLabels
    ELSE IF Fits(labels, labelLength, usableLength)
         THEN FitLoop(labelLength, usableLength, labels + 1, ceiling, labels)
         ELSE maxLabels

\* number of times the body of that for loop runs
RECURSIVE FitLoopIterations(_, _, _, _)
FitLoopIterations(labelLength, usableLength, labels, ceiling) ==
    IF labels > ceiling THEN 0
    ELSE IF Fits(labels, labelLength, usableLength)
         THEN 1 + FitLoopIterations(labelLength, usableLength, labels + 1, ceiling)
         ELSE 1

(* Keyboard handler copy (handleKeyDown).                                  *)
KeyCalculateMaxLabelsPerRow(labelWidth) ==
    IF RGe(labelWidth, usableWidthCm) THEN 1
    ELSE FitLoop(labelWidth, usableWidthCm, 2, KeyRowCeiling, 1)

KeyCalculateMaxLabelsPerCol(labelHeight) ==
    IF RGe(labelHeight, usableHeightCm) THEN 1
    ELSE FitLoop(labelHeight, usableHeightCm, 2, KeyColCeiling, 1)

KeyTotalPages(cnt, dims) ==
    LET maxLabelsPerRow == KeyCalculateMaxLabelsPerRow(dims.width)
        maxLabelsPerCol == KeyCalculateMaxLabelsPerCol(dims.height)
        maxLabelsOnA4 == maxLabelsPerRow * maxLabelsPerCol
    IN  MathCeil(RDiv(cnt, I(maxLabelsOnA4)))

(* Preview copy ("Print Page Preview").                                    *)
PreviewCalculateMaxLabelsPerRow(labelWidth) ==
    IF RGe(labelWidth, usableWidthCm) THEN 1
    ELSE FitLoop(labelWidth, usableWidthCm, 2, PreviewRowCeiling, 1)

PreviewCalculateMaxLabelsPerCol(labelHeight) ==
    IF RGe(labelHeight, usableHeightCm) THEN 1
    ELSE FitLoop(labelHeight, usableHeightCm, 2, PreviewColCeiling, 1)

PreviewMaxLabelsOnA4(dims) ==
    PreviewCalculateMaxLabelsPerRow(dims.width)
        * PreviewCalculateMaxLabelsPerCol(dims.height)

PreviewTotalPages(cnt, dims) ==
    MathCeil(RDiv(cnt, I(PreviewMaxLabelsOnA4(dims))))

PreviewHorizontalSpacing(maxLabelsPerRow, labelWidthCm) ==
    IF maxLabelsPerRow > 1
    THEN RDiv(RSub(usableWidthCm, RMul(I(maxLabelsPerRow), labelWidthCm)),
              I(maxLabelsPerRow - 1))
    ELSE Zero

PreviewVerticalSpacing(maxLabelsPerCol, labelHeightCm) ==
    IF maxLabelsPerCol > 1
    THEN RDiv(RSub(usableHeightCm, RMul(I(maxLabelsPerCol), labelHeightCm)),
              I(maxLabelsPerCol - 1))
    ELSE Zero

(* Print layout copy ("This is what gets printed").                        *)
\* a plausible slip: the print row loop allowed to run to twice its ceiling
PrintCalculateMaxLabelsPerRowTwiceCeiling(labelWidth) ==
    IF RGe(labelWidth, usableWidthCm) THEN 1
    ELSE FitLoop(labelWidth, usableWidthCm, 2, 2 * PrintRowCeiling, 1)

PrintCalculateMaxLabelsPerRow(labelWidth) ==
    IF RGe(labelWidth, usableWidthCm) THEN 1
    ELSE FitLoop(labelWidth, usableWidthCm, 2, PrintRowCeiling, 1)

PrintCalculateMaxLabelsPerCol(labelHeight) ==
    IF RGe(labelHeight, usableHeightCm) THEN 1
    ELSE FitLoop(labelHeight, usableHeightCm, 2, PrintColCeiling, 1)

\* loop iterations of one call of each capacity function
KeyRowIterations(labelWidth) ==
    IF RGe(labelWidth, usableWidthCm) THEN 0
    ELSE FitLoopIterations(labelWidth, usableWidthCm, 2, KeyRowCeiling)

KeyColIterations(labelHeight) ==
    IF RGe(labelHeight, usableHeightCm) THEN 0
    ELSE FitLoopIterations(labelHeight, usableHeightCm, 2, KeyColCeiling)

PreviewRowIterations(labelWidth) ==
    IF RGe(labelWidth, usableWidthCm) THEN 0
    ELSE FitLoopIterations(labelWidth, usableWidthCm, 2, PreviewRowCeiling)

PreviewColIterations(labelHeight) ==
    IF RGe(labelHeight, usableHeightCm) THEN 0
    ELSE FitLoopIterations(labelHeight, usableHeightCm, 2, PreviewColCeiling)

PrintRowIterations(labelWidth) ==
    IF RGe(labelWidth, usableWidthCm) THEN 0
    ELSE FitLoopIterations(labelWidth, usableWidthCm, 2, PrintRowCeiling)

PrintColIterations(labelHeight) ==
    IF RGe(labelHeight, usableHeightCm) THEN 0
    ELSE FitLoopIterations(labelHeight, usableHeightCm, 2, PrintColCeiling)

PrintMaxPerPage(dims) ==
    PrintCalculateMaxLabelsPerRow(dims.width)
        * PrintCalculateMaxLabelsPerCol(dims.height)

\* a plausible slip: the gaps counted as one per label instead of one between labels
HorizontalSpacingPerLabel(maxLabelsPerRow, labelWidth) ==
    IF maxLabelsPerRow > 1
    THEN RDiv(RSub(usableWidthCm, RMul(I(maxLabelsPerRow), labelWidth)),
              I(maxLabelsPerRow))
    ELSE Zero

PrintHorizontalSpacing(maxLabelsPerRow, labelWidth) ==
    IF maxLabelsPerRow > 1
    THEN RDiv(RSub(usableWidthCm, RMul(I(maxLabelsPerRow), labelWidth)),
              I(maxLabelsPerRow - 1))
    ELSE Zero

\* a plausible slip: the single-label case not special-cased, the divisor only
\* kept away from zero
VerticalSpacingUnguarded(maxLabelsPerCol, labelHeight) ==
    RDiv(RSub(usableHeightCm, RMul(I(maxLabelsPerCol), labelHeight)),
         I(IntMax(maxLabelsPerCol - 1, 1)))

PrintVerticalSpacing(maxLabelsPerCol, labelHeight) ==
    IF maxLabelsPerCol > 1
    THEN RDiv(RSub(usableHeightCm, RMul(I(maxLabelsPerCol), labelHeight)),
              I(maxLabelsPerCol - 1))
    ELSE Zero

\* a plausible slip: the page count taken as floor + 1 instead of ceil
PrintTotalPagesFloorPlusOne(cnt, maxPerPage) ==
    (RDiv(cnt, I(maxPerPage))[1] \div RDiv(cnt, I(maxPerPage))[2]) + 1

PrintTotalPages(cnt, maxPerPage) == MathCeil(RDiv(cnt, I(maxPerPage)))

\* a plausible slip: endIndex not clamped to count
PrintSheetUnclamped(cnt, maxPerPage, totalPages, pageIndex) ==
    LET startIndex == I(pageIndex * maxPerPage)
        endIndex == RAdd(startIndex, I(maxPerPage))
    IN  [pageIndex |-> pageIndex,
         startIndex |-> startIndex,
         endIndex |-> endIndex,
         labelsOnThisPage |-> RSub(endIndex, startIndex),
         isLastPage |-> (pageIndex = totalPages - 1)]

\* a plausible slip: the last page looked for one index too far
PrintSheetLastOffByOne(cnt, maxPerPage, totalPages, pageIndex) ==
    LET startIndex == I(pageIndex * maxPerPage)
        endIndex == MathMin(RAdd(startIndex, I(maxPerPage)), cnt)
    IN  [pageIndex |-> pageIndex,
         startIndex |-> startIndex,
         endIndex |-> endIndex,
         labelsOnThisPage |-> RSub(endIndex, startIndex),
         isLastPage |-> (pageIndex = totalPages)]

\* body of the pages loop: the record pushed for pageIndex
PrintSheet(cnt, maxPerPage, totalPages, pageIndex) ==
    LET startIndex == I(pageIndex * maxPerPage)
        endIndex == MathMin(RAdd(startIndex, I(maxPerPage)), cnt)
    IN  [pageIndex |-> pageIndex,
         startIndex |-> startIndex,
         endIndex |-> endIndex,
         labelsOnThisPage |-> RSub(endIndex, startIndex),
         isLastPage |-> (pageIndex = totalPages - 1)]

\* a plausible slip: the loop runs one index too far and pushes every page
RECURSIVE PagesLoopInclusive(_, _, _, _)
PagesLoopInclusive(cnt, maxPerPage, totalPages, pageIndex) ==
    IF pageIndex > totalPages THEN <<>>
    ELSE <<PrintSheet(cnt, maxPerPage, totalPages, pageIndex)>>
             \o PagesLoopInclusive(cnt, maxPerPage, totalPages, pageIndex + 1)

PrintPagesInclusive(cnt, maxPerPage) ==
    PagesLoopInclusive(cnt, maxPerPage, PrintTotalPages(cnt, maxPerPage), 0)

\* for (pageIndex = 0; pageIndex < totalPages; pageIndex++) { if (labelsOnThisPage > 0) push }
RECURSIVE PagesLoop(_, _, _, _)
PagesLoop(cnt, maxPerPage, totalPages, pageIndex) ==
    IF pageIndex >= totalPages THEN <<>>
    ELSE LET sheet == PrintSheet(cnt, maxPerPage, totalPages, pageIndex)
             rest == PagesLoop(cnt, maxPerPage, totalPages, pageIndex + 1)
         IN  IF RGt(sheet.labelsOnThisPage, Zero) THEN <<sheet>> \o rest ELSE rest

\* a plausible slip: the pages loop started at page index 1
PrintPagesFromOne(cnt, maxPerPage) ==
    PagesLoop(cnt, maxPerPage, PrintTotalPages(cnt, maxPerPage), 1)

PrintPages(cnt, maxPerPage) ==
    PagesLoop(cnt, maxPerPage, PrintTotalPages(cnt, maxPerPage), 0)

\* actualCols = Math.min(maxLabelsPerRow, labelsOnThisPage)
PrintActualCols(maxLabelsPerRow, labelsOnThisPage) ==
    MathMin(I(maxLabelsPerRow), labelsOnThisPage)

\* actualRows = Math.ceil(labelsOnThisPage / actualCols); 0 / 0 is NaN in the
\* source and is written 0 here (pages are pushed only with labels > 0)
PrintActualRows(labelsOnThisPage, actualCols) ==
    IF actualCols = Zero THEN 0
    ELSE MathCeil(RDiv(labelsOnThisPage, actualCols))

\* the print-page element rendered for one entry of pages
PrintPageElement(sheet, maxLabelsPerRow) ==
    LET actualCols == PrintActualCols(maxLabelsPerRow, sheet.labelsOnThisPage)
    IN  [pageIndex |-> sheet.pageIndex,
         actualCols |-> actualCols,
         actualRows |-> PrintActualRows(sheet.labelsOnThisPage, actualCols),
         className |-> IF ~sheet.isLastPage THEN "print-page print-break"
                       ELSE "print-page "]

\* pages.map(...)
PrintLayout(pages, maxLabelsPerRow) ==
    [i \in 1..Len(pages) |-> PrintPageElement(pages[i], maxLabelsPerRow)]

\* the page of labels the preview shows for currentPage
PreviewPage(cnt, dims, page) ==
    LET maxLabelsPerRow == PreviewCalculateMaxLabelsPerRow(dims.width)
        maxLabelsOnA4 == PreviewMaxLabelsOnA4(dims)
        startIndex == I((page - 1) * maxLabelsOnA4)
        endIndex == MathMin(RAdd(startIndex, I(maxLabelsOnA4)), cnt)
        labelsOnCurrentPage == RSub(endIndex, startIndex)
        actualCols == MathMin(I(maxLabelsPerRow), labelsOnCurrentPage)
    IN  [startIndex |-> startIndex,
         endIndex |-> endIndex,
         labelsOnCurrentPage |-> labelsOnCurrentPage,
         actualCols |-> actualCols,
         actualRows |-> PrintActualRows(labelsOnCurrentPage, actualCols)]

----------------------------------------------------------------------------
(* Inputs.                                                                 *)

\* a URL search parameter: absent, present but not a number, or a number
UrlDimNums == {Rat(1, 5), Rat(84, 5), I(24)}
UrlParams ==
    {[kind |-> "null", num |-> Zero], [kind |-> "text", num |-> Zero]}
        \cup {[kind |-> "num", num |-> r] : r \in UrlDimNums}

\* e.target.value of a number input: the empty string or a number's text
CountInputNums == {I(k) : k \in 0..MaxCountInput} \cup {Rat(5, 2), I(-3), I(12)}
CountInputs ==
    {[empty |-> TRUE, num |-> Zero]}
        \cup {[empty |-> FALSE, num |-> r] : r \in CountInputNums}

DimInputNums == {I(k) : k \in 0..MaxDimInput} \cup {I(25)}
DimInputs ==
    {[empty |-> TRUE, num |-> Zero]}
        \cup {[empty |-> FALSE, num |-> r] : r \in DimInputNums}

Keys == {"ArrowLeft", "ArrowUp", "ArrowRight", "ArrowDown", "Home", "End", "a"}
TagNames == {"INPUT", "BODY"}

\* the repeat counts and capacities handed to one evaluation of the print layout
RepeatCounts == {Rat(k, 2) : k \in 0..(2 * MaxRepeatCount)}
LayoutRequests ==
    [repeatCount : RepeatCounts,
     maxLabelsPerRow : 1..MaxPerRow,
     maxLabelsPerCol : 1..MaxPerCol]

IdleRequest == [repeatCount |-> I(6), maxLabelsPerRow |-> 1, maxLabelsPerCol |-> 1]

----------------------------------------------------------------------------
(* Conversions.                                                            *)

\* v ? parseFloat(v) : NaN, then isNaN(parsed) ? fallback : parsed
getNumberParam(v, fallback) == IF v.kind = "num" THEN v.num ELSE fallback

\* Number(e.target.value): the empty string converts to 0
Number(v) == IF v.empty THEN Zero ELSE v.num

\* parseFloat(e.target.value) || 1: NaN and 0 are falsy
ParseFloatOr1(v) == IF v.empty \/ v.num = Zero THEN One ELSE v.num

----------------------------------------------------------------------------
(* Saved design state (utils/designState.ts).  A DesignState record is     *)
(* modelled by a number: 0 is defaultDesignState, 1..MaxDesign are other   *)
(* designs the home page can hold.                                         *)

MaxDesign == 2

defaultDesignState == 0
Designs == 0..MaxDesign

\* null: no localStorage item, no saved state, no URL parameters
NoDesign == -1
\* a stored item that does not parse to a valid DesignState structure
CorruptItem == -2

\* saveDesignState: the item written for a design
saveDesignState(state) == state

\* loadDesignState: the item if it validates, else null
loadDesignState(saved) == IF saved \in Designs THEN saved ELSE NoDesign

\* clearDesignState: the item is removed
clearDesignState == NoDesign

\* a plausible slip: the refresh flag is consumed but the design is kept
setupHardRefreshDetectionKeepsState(stored, refreshing) ==
    [listener |-> TRUE, stored |-> stored, refreshing |-> FALSE]

\* setupHardRefreshDetection: registers the beforeunload listener; if the
\* 'page-refreshing' flag is present, clears the design and removes the flag
setupHardRefreshDetection(stored, refreshing) ==
    [listener |-> TRUE,
     stored |-> IF refreshing THEN clearDesignState ELSE stored,
     refreshing |-> FALSE]

\* getStringParam / getPatternParam / getNumberParam with the default design
\* as fallback
DesignFromUrl(u) == IF u = NoDesign THEN defaultDesignState ELSE u

\* a URL without labelWidth and labelHeight
NoLabelParams ==
    [width |-> [kind |-> "null", num |-> Zero],
     height |-> [kind |-> "null", num |-> Zero]]

\* no page load or navigation under way, nothing stored
NavIdle ==
    /\ route = "print"
    /\ navPhase = "ready"
    /\ arrival = "open"
    /\ navEvent = "none"
    /\ storedDesign = NoDesign
    /\ pageRefreshing = FALSE
    /\ beforeunloadListener = FALSE
    /\ designState = defaultDesignState
    /\ urlDesign = NoDesign
    /\ lastSaved = NoDesign
    /\ isInitialized = FALSE
    /\ urlLabel = NoLabelParams

----------------------------------------------------------------------------
(* Rasterisation of the label (generateLabelPng).  The design inputs the   *)
(* raster effect watches are modelled by a number 0..MaxInputs.            *)

MaxInputs == 2
MaxCalls == 3
MaxTextSize == 400

\* useState<string>(""): the empty data URL
EmptyDataUrl == <<>>

\* htmlToImage.toPng(node): the data URL of the node as rendered for inputs
toPng(inputs) == <<"data:image/png", inputs>>

\* labelPngDataUrl ? <img src=...> : <LabelPreview ...>
PrintLabelContent(dataUrl) ==
    IF dataUrl # EmptyDataUrl THEN "img" ELSE "LabelPreview"

NoCall == [id |-> 0, outcome |-> "none"]

\* no rasterisation started
RasterIdle ==
    /\ rasterInputs = 0
    /\ inFlight = {}
    /\ labelPngDataUrl = EmptyDataUrl
    /\ calls = 0
    /\ lastCall = NoCall
    /\ printed = "none"

----------------------------------------------------------------------------
(* The stored item in full (utils/designState.ts).  A JSON value is a      *)
(* record [t, v]: t is its kind ("string", "number", "null", "undefined"   *)
(* for an absent property), v its text.                                    *)

Str(v) == [t |-> "string", v |-> v]
Num(v) == [t |-> "number", v |-> v]
Null == [t |-> "null", v |-> ""]
Undefined == [t |-> "undefined", v |-> ""]

\* typeof
TypeOf(x) == IF x.t = "null" THEN "object" ELSE x.t

NoPosition == [x |-> Undefined, y |-> Undefined]
NoSize == [width |-> Undefined, height |-> Undefined, fontSize |-> Undefined]

\* textPosition / textSize values: an object with its properties, or a
\* value of another kind
PositionValues ==
    {[t |-> "object", p |-> [x |-> x, y |-> y]] :
        x \in {Num("50"), Undefined}, y \in {Num("50"), Str("50")}}
    \cup {[t |-> k, p |-> NoPosition] : k \in {"null", "undefined"}}

SizeValues ==
    {[t |-> "object", p |-> [width |-> w, height |-> Num("80"), fontSize |-> f]] :
        w \in {Num("200"), Undefined}, f \in {Num("24"), Null}}
    \cup {[t |-> "null", p |-> NoSize]}

PatternValues ==
    {Str("none"), Str("dots"), Str("grid"), Str("diagonal"), Str("stripes"),
     Undefined}

\* objects a stored JSON text can parse to
ParsedObjects ==
    [text : {Str("Appelmoes"), Str(""), Num("5"), Undefined},
     logoColor : {Str("#6B46C1"), Num("0")},
     pattern : PatternValues,
     patternColor : {Str("#4C1D95"), Undefined},
     textColor : {Str("#4C1D95"), Null},
     textPosition : PositionValues,
     textSize : SizeValues]

\* DesignState records the home page holds
DesignStates ==
    [text : {Str("Appelmoes"), Str("")},
     logoColor : {Str("#6B46C1")},
     pattern : {Str("none"), Str("dots"), Str("grid"), Str("diagonal")},
     patternColor : {Str("#4C1D95")},
     textColor : {Str("#4C1D95")},
     textPosition : {[t |-> "object", p |-> [x |-> Num("50"), y |-> Num("50")]]},
     textSize : {[t |-> "object",
                  p |-> [width |-> Num("200"), height |-> Num("80"),
                         fontSize |-> Num("24")]]}]

BlankObject ==
    [text |-> Undefined, logoColor |-> Undefined, pattern |-> Undefined,
     patternColor |-> Undefined, textColor |-> Undefined,
     textPosition |-> [t |-> "undefined", p |-> NoPosition],
     textSize |-> [t |-> "null", p |-> NoSize]]

\* localStorage.getItem: null, text that is not JSON, or JSON text of an
\* object, of null or of a number
NoItem == [kind |-> "none", json |-> "null", object |-> BlankObject]
StorageItems ==
    {NoItem,
     [kind |-> "text", json |-> "invalid", object |-> BlankObject],
     [kind |-> "text", json |-> "null", object |-> BlankObject],
     [kind |-> "text", json |-> "number", object |-> BlankObject]}
    \cup {[kind |-> "text", json |-> "object", object |-> o] : o \in ParsedObjects}

\* JSON.stringify writes a number that is NaN or infinite as null
JsonNumber(x) ==
    IF x.t = "number" /\ x.v \in {"NaN", "Infinity"} THEN Null ELSE x

\* JSON.stringify(state)
JSONstringify(state) ==
    [kind |-> "text",
     json |-> "object",
     object |->
        [state EXCEPT
            !.textPosition.p.x = JsonNumber(@),
            !.textPosition.p.y = JsonNumber(@),
            !.textSize.p.width = JsonNumber(@),
            !.textSize.p.height = JsonNumber(@),
            !.textSize.p.fontSize = JsonNumber(@)]]

\* a plausible slip: the pattern checked for its type only
StructureCheckAnyPattern(item) ==
    IF item.json = "invalid" \/ item.json = "null" THEN "throw"
    ELSE IF item.json = "number" THEN "fail"
    ELSE LET parsed == item.object
         IN  IF ~(/\ TypeOf(parsed.text) = "string"
                  /\ TypeOf(parsed.logoColor) = "string"
                  /\ TypeOf(parsed.pattern) = "string"
                  /\ TypeOf(parsed.patternColor) = "string"
                  /\ TypeOf(parsed.textColor) = "string"
                  /\ TypeOf(parsed.textPosition) = "object")
             THEN "fail"
             ELSE IF parsed.textPosition.t = "null" THEN "throw"
             ELSE IF ~(/\ TypeOf(parsed.textPosition.p.x) = "number"
                       /\ TypeOf(parsed.textPosition.p.y) = "number"
                       /\ TypeOf(parsed.textSize) = "object")
             THEN "fail"
             ELSE IF parsed.textSize.t = "null" THEN "throw"
             ELSE IF /\ TypeOf(parsed.textSize.p.width) = "number"
                     /\ TypeOf(parsed.textSize.p.height) = "number"
                     /\ TypeOf(parsed.textSize.p.fontSize) = "number"
             THEN "pass"
             ELSE "fail"

\* JSON.parse(saved) and the structure validation, evaluated left to right:
\* "pass", "fail", or "throw" (JSON.parse on invalid text; a property read
\* on null)
StructureCheck(item) ==
    IF item.json = "invalid" \/ item.json = "null" THEN "throw"
    ELSE IF item.json = "number" THEN "fail"
    ELSE LET parsed == item.object
         IN  IF ~(/\ TypeOf(parsed.text) = "string"
                  /\ TypeOf(parsed.logoColor) = "string"
                  /\ parsed.pattern \in {Str("none"), Str("dots"), Str("grid"),
                                         Str("diagonal")}
                  /\ TypeOf(parsed.patternColor) = "string"
                  /\ TypeOf(parsed.textColor) = "string"
                  /\ TypeOf(parsed.textPosition) = "object")
             THEN "fail"
             ELSE IF parsed.textPosition.t = "null" THEN "throw"
             ELSE IF ~(/\ TypeOf(parsed.textPosition.p.x) = "number"
                       /\ TypeOf(parsed.textPosition.p.y) = "number"
                       /\ TypeOf(parsed.textSize) = "object")
             THEN "fail"
             ELSE IF parsed.textSize.t = "null" THEN "throw"
             ELSE IF /\ TypeOf(parsed.textSize.p.width) = "number"
                     /\ TypeOf(parsed.textSize.p.height) = "number"
                     /\ TypeOf(parsed.textSize.p.fontSize) = "number"
             THEN "pass"
             ELSE "fail"

NullResult == [threw |-> FALSE, isNull |-> TRUE, state |-> BlankObject]

\* the try block of loadDesignState: null without an item, the parsed
\* object if the validation passes, null if it fails, or an exception
TryLoad(item) ==
    IF item.kind = "none" THEN NullResult
    ELSE IF StructureCheck(item) = "pass"
         THEN [threw |-> FALSE, isNull |-> FALSE, state |-> item.object]
    ELSE IF StructureCheck(item) = "fail" THEN NullResult
    ELSE [threw |-> TRUE, isNull |-> TRUE, state |-> BlankObject]

\* loadDesignState in full: the catch block returns null
LoadItem(item) ==
    IF TryLoad(item).threw THEN NullResult ELSE TryLoad(item)

\* no designState.ts call made
StorageIdle ==
    /\ storageItem = NoItem
    /\ storageOp = "none"
    /\ writtenState = BlankObject
    /\ loadResult = NullResult

----------------------------------------------------------------------------
(* The interactive label preview of the home page                          *)
(* (components/LabelPreview.tsx): the text box, its four resize handles    *)
(* and the mouse handlers of the container.  Lengths are client pixels.    *)

\* containerRef.current.getBoundingClientRect() of the home page preview
containerRect == [left |-> I(0), top |-> I(0), width |-> I(600), height |-> I(450)]

\* containerSize state after updateSize()
containerSize == [width |-> containerRect.width, height |-> containerRect.height]

scaleFactor == RDiv(containerSize.width, I(600))

\* the pointer is outside the container
Outside == <<I(-1), I(-1)>>

\* Math.round
MathRound(a) == (2 * a[1] + a[2]) \div (2 * a[2])

\* the text box as laid out: centred on textPosition (in % of the
\* container), textSize scaled by scaleFactor
TextBox(position, size) ==
    LET cx == RAdd(containerRect.left,
                   RMul(RDiv(position.x, I(100)), containerRect.width))
        cy == RAdd(containerRect.top,
                   RMul(RDiv(position.y, I(100)), containerRect.height))
        w == RMul(size.width, scaleFactor)
        h == RMul(size.height, scaleFactor)
    IN [left |-> RSub(cx, RDiv(w, I(2))), right |-> RAdd(cx, RDiv(w, I(2))),
        top |-> RSub(cy, RDiv(h, I(2))), bottom |-> RAdd(cy, RDiv(h, I(2)))]

ResizeDirections == {"se", "sw", "ne", "nw"}

\* the square of one resize handle: 2 * scaleFactor px outside the text
\* box's corner, max(8, 16 * scaleFactor) px wide
Handle(direction, position, size) ==
    LET box == TextBox(position, size)
        out == RMul(I(2), scaleFactor)
        side == MathMax(I(8), RMul(I(16), scaleFactor))
        east == direction \in {"se", "ne"}
        south == direction \in {"se", "sw"}
        r == IF east THEN RAdd(box.right, out)
             ELSE RAdd(RSub(box.left, out), side)
        b == IF south THEN RAdd(box.bottom, out)
             ELSE RAdd(RSub(box.top, out), side)
    IN [left |-> RSub(r, side), right |-> r, top |-> RSub(b, side), bottom |-> b]

Inside(p, rect) ==
    /\ RLe(rect.left, p[1]) /\ RLe(p[1], rect.right)
    /\ RLe(rect.top, p[2]) /\ RLe(p[2], rect.bottom)

OverHandle(direction, p, position, size) ==
    Inside(p, Handle(direction, position, size))

\* the pointer is over the text box and over none of its handles, which
\* lie above it
OverTextBox(p, position, size) ==
    /\ Inside(p, TextBox(position, size))
    /\ \A direction \in ResizeDirections :
           ~OverHandle(direction, p, position, size)

\* no mouse event handled yet
EditorIdle ==
    /\ isDragging = FALSE
    /\ isResizing = FALSE
    /\ resizeDirection = "se"
    /\ dragStart = [x |-> I(0), y |-> I(0)]
    /\ textPosition = [x |-> I(50), y |-> I(50)]
    /\ textSize = [width |-> I(200), height |-> I(80), fontSize |-> 24]
    /\ pointer = Outside
    /\ mouseEvent = "none"

AuxIdle == RasterIdle /\ StorageIdle /\ EditorIdle

----------------------------------------------------------------------------
(* The print page.                                                         *)

Init ==
    /\ isMounted = FALSE
    /\ count = I(6)
    /\ currentPage = 1
    /\ labelDimensions = [width |-> I(6), height |-> I(4)]
    /\ lastEvent = "construct"
    /\ phase = "idle"
    /\ layoutRequest = IdleRequest
    /\ sheets = <<>>
    /\ printLayout = <<>>
    /\ NavIdle
    /\ AuxIdle

\* mount effects: setIsMounted(true), then the label dimensions from the URL
Mount(labelWidth, labelHeight) ==
    /\ ~isMounted
    /\ isMounted' = TRUE
    /\ labelDimensions' = [width |-> getNumberParam(labelWidth, I(6)),
                           height |-> getNumberParam(labelHeight, I(4))]
    /\ lastEvent' = "mount"
    /\ UNCHANGED <<count, currentPage, layoutVars, navVars, auxVars>>

\* "Repeat count" onChange, with the effect keyed on [count]
ChangeCount(v) ==
    /\ isMounted
    /\ count' = MathMax(One, Number(v))
    /\ currentPage' = IF count' # count THEN 1 ELSE currentPage
    /\ lastEvent' = "changeCount"
    /\ UNCHANGED <<isMounted, labelDimensions, layoutVars, navVars, auxVars>>

\* "Width (cm)" onChange
ChangeWidth(v) ==
    /\ isMounted
    /\ LET newWidth == MathMax(One, MathMin(I(20), ParseFloatOr1(v)))
           aspectRatio == RDiv(labelDimensions.height, labelDimensions.width)
       IN  labelDimensions' = [width |-> newWidth,
                               height |-> RMul(newWidth, aspectRatio)]
    /\ lastEvent' = "changeWidth"
    /\ UNCHANGED <<isMounted, count, currentPage, layoutVars, navVars, auxVars>>

\* "Height (cm)" onChange
ChangeHeight(v) ==
    /\ isMounted
    /\ LET newHeight == MathMax(One, MathMin(I(20), ParseFloatOr1(v)))
           aspectRatio == RDiv(labelDimensions.width, labelDimensions.height)
       IN  labelDimensions' = [width |-> RMul(newHeight, aspectRatio),
                               height |-> newHeight]
    /\ lastEvent' = "changeHeight"
    /\ UNCHANGED <<isMounted, count, currentPage, layoutVars, navVars, auxVars>>

\* a plausible slip: the early return taken only when there is no page at all
KeyPageNoSinglePageReturn(key, tagName, totalPages, prev) ==
    IF tagName = "INPUT" THEN prev
    ELSE IF totalPages < 1 THEN prev
    ELSE IF key \in {"ArrowLeft", "ArrowUp"} THEN IntMax(1, prev - 1)
    ELSE IF key \in {"ArrowRight", "ArrowDown"} THEN IntMin(totalPages, prev + 1)
    ELSE IF key = "Home" THEN 1
    ELSE IF key = "End" THEN totalPages
    ELSE prev

\* the page cursor handleKeyDown leaves behind
KeyPage(key, tagName, totalPages, prev) ==
    IF tagName = "INPUT" THEN prev
    ELSE IF totalPages <= 1 THEN prev
    ELSE IF key \in {"ArrowLeft", "ArrowUp"} THEN IntMax(1, prev - 1)
    ELSE IF key \in {"ArrowRight", "ArrowDown"} THEN IntMin(totalPages, prev + 1)
    ELSE IF key = "Home" THEN 1
    ELSE IF key = "End" THEN totalPages
    ELSE prev

handleKeyDown(key, tagName) ==
    /\ isMounted
    /\ currentPage' = KeyPage(key, tagName, KeyTotalPages(count, labelDimensions),
                              currentPage)
    /\ lastEvent' = IF tagName = "INPUT" THEN "keydown in input" ELSE key
    /\ UNCHANGED <<isMounted, count, labelDimensions, layoutVars, navVars, auxVars>>

\* the Prev / Next buttons exist only when the preview has more than one page
CarouselRendered == PreviewTotalPages(count, labelDimensions) > 1

\* Prev: disabled on page 1, a disabled button delivers no click
ClickPrev ==
    /\ isMounted
    /\ CarouselRendered
    /\ currentPage' = IF currentPage = 1 THEN currentPage
                      ELSE IntMax(1, currentPage - 1)
    /\ lastEvent' = "clickPrev"
    /\ UNCHANGED <<isMounted, count, labelDimensions, layoutVars, navVars, auxVars>>

\* Next: disabled on the last page
ClickNext ==
    /\ isMounted
    /\ CarouselRendered
    /\ LET totalPages == PreviewTotalPages(count, labelDimensions)
       IN  currentPage' = IF currentPage = totalPages THEN currentPage
                          ELSE IntMin(totalPages, currentPage + 1)
    /\ lastEvent' = "clickNext"
    /\ UNCHANGED <<isMounted, count, labelDimensions, layoutVars, navVars, auxVars>>

Next ==
    \/ \E w \in UrlParams, h \in UrlParams : Mount(w, h)
    \/ \E v \in CountInputs : ChangeCount(v)
    \/ \E v \in DimInputs : ChangeWidth(v)
    \/ \E v \in DimInputs : ChangeHeight(v)
    \/ \E key \in Keys, tagName \in TagNames : handleKeyDown(key, tagName)
    \/ ClickPrev
    \/ ClickNext

Spec == Init /\ [][Next]_vars

----------------------------------------------------------------------------
(* One evaluation of the print layout on a given repeat count and grid.    *)

LayoutInit ==
    /\ isMounted = TRUE
    /\ count = I(6)
    /\ currentPage = 1
    /\ labelDimensions = [width |-> I(6), height |-> I(4)]
    /\ lastEvent = "mount"
    /\ phase = "requested"
    /\ layoutRequest \in LayoutRequests
    /\ sheets = <<>>
    /\ printLayout = <<>>
    /\ NavIdle
    /\ AuxIdle

RenderPrintLayout ==
    /\ phase = "requested"
    /\ sheets' = PrintPages(layoutRequest.repeatCount,
                            layoutRequest.maxLabelsPerRow * layoutRequest.maxLabelsPerCol)
    /\ printLayout' = PrintLayout(sheets', layoutRequest.maxLabelsPerRow)
    /\ phase' = "rendered"
    /\ UNCHANGED <<layoutRequest, pageVars, navVars, auxVars>>

LayoutNext == RenderPrintLayout

LayoutSpec == LayoutInit /\ [][LayoutNext]_vars

----------------------------------------------------------------------------
(* The print page opened on any labelWidth / labelHeight query parameters: *)
(* absent, empty, text, or any number, zero and negative ones included.    *)

MaxUrlNum == 4

UrlAnyNums == {I(k) : k \in (-MaxUrlNum)..MaxUrlNum} \cup UrlDimNums
UrlAnyParams ==
    {[kind |-> k, num |-> Zero] : k \in {"null", "empty", "text"}}
        \cup {[kind |-> "num", num |-> r] : r \in UrlAnyNums}

UrlNext == \E w \in UrlAnyParams, h \in UrlAnyParams : Mount(w, h)

UrlSpec == Init /\ [][UrlNext]_vars

----------------------------------------------------------------------------
(* Page loads, reloads and client-side navigation between the home page    *)
(* and the print page, with the design kept in localStorage.               *)

NavInit ==
    /\ isMounted = FALSE
    /\ count = I(6)
    /\ currentPage = 1
    /\ labelDimensions = [width |-> I(6), height |-> I(4)]
    /\ lastEvent = "construct"
    /\ phase = "idle"
    /\ layoutRequest = IdleRequest
    /\ sheets = <<>>
    /\ printLayout = <<>>
    /\ route \in {"home", "print"}
    /\ navPhase = "loading"
    /\ arrival = "open"
    /\ navEvent = "open"
    /\ storedDesign \in Designs \cup {NoDesign, CorruptItem}
    /\ pageRefreshing = FALSE
    /\ beforeunloadListener = FALSE
    /\ designState = defaultDesignState
    /\ urlDesign \in (IF route = "print" THEN Designs \cup {NoDesign}
                                         ELSE {NoDesign})
    /\ lastSaved = loadDesignState(storedDesign)
    /\ isInitialized = FALSE
    /\ urlLabel \in (IF route = "print"
                     THEN [width : UrlParams, height : UrlParams]
                     ELSE {NoLabelParams})
    /\ AuxIdle

navFrozen == <<count, currentPage, lastEvent, layoutVars, auxVars>>

\* Home: the mount effect (hard refresh detection, then the saved state);
\* its setters take effect with the next render
HomeMountEffect ==
    /\ route = "home"
    /\ navPhase = "loading"
    /\ LET detection == setupHardRefreshDetection(storedDesign, pageRefreshing)
           savedState == loadDesignState(detection.stored)
       IN  /\ beforeunloadListener' = detection.listener
           /\ storedDesign' = detection.stored
           /\ pageRefreshing' = detection.refreshing
           /\ designState' = IF savedState # NoDesign THEN savedState
                                                       ELSE designState
    /\ navPhase' = "effects"
    /\ navEvent' = "homeMount"
    /\ UNCHANGED <<route, arrival, urlDesign, lastSaved, isInitialized, urlLabel,
                   isMounted, labelDimensions, navFrozen>>

\* the design the save effect's closure holds: the first render's closure
\* holds the useState initial values
renderedDesign ==
    IF navPhase = "effects" THEN defaultDesignState ELSE designState

\* Home: the save effect.  It runs after the first render (isInitialized
\* still false: it returns, and the render with the mount effect's state
\* follows), after that render, and after every change of the design.
HomeSaveEffect ==
    /\ route = "home"
    /\ navPhase \in {"effects", "mounted", "edited"}
    /\ IF ~isInitialized
       THEN /\ navEvent' = "homeSaveSkipped"
            /\ UNCHANGED <<storedDesign, lastSaved>>
       ELSE /\ storedDesign' = saveDesignState(renderedDesign)
            /\ lastSaved' = renderedDesign
            /\ navEvent' = "homeSave"
    /\ isInitialized' = TRUE
    /\ navPhase' = IF navPhase = "effects" THEN "mounted" ELSE "ready"
    /\ UNCHANGED <<route, arrival, pageRefreshing, beforeunloadListener,
                   designState, urlDesign, urlLabel, isMounted, labelDimensions,
                   navFrozen>>

\* Home: any of the design controls sets a design property
EditDesign(d) ==
    /\ route = "home"
    /\ navPhase = "ready"
    /\ d # designState
    /\ designState' = d
    /\ navPhase' = "edited"
    /\ navEvent' = "edit"
    /\ UNCHANGED <<route, arrival, storedDesign, pageRefreshing,
                   beforeunloadListener, urlDesign, lastSaved, isInitialized,
                   urlLabel, isMounted, labelDimensions, navFrozen>>

\* Home: router.push('/print?...') with the design in the query
handlePrintNavigation ==
    /\ route = "home"
    /\ navPhase = "ready"
    /\ route' = "print"
    /\ navPhase' = "loading"
    /\ arrival' = "client"
    /\ navEvent' = "toPrint"
    /\ urlDesign' = designState
    /\ urlLabel' = NoLabelParams
    /\ designState' = defaultDesignState
    /\ isInitialized' = FALSE
    /\ isMounted' = FALSE
    /\ labelDimensions' = [width |-> I(6), height |-> I(4)]
    /\ UNCHANGED <<storedDesign, pageRefreshing, beforeunloadListener,
                   lastSaved, navFrozen>>

\* a plausible slip: the URL parameters preferred to the saved state
PrintLoadEffectUrlFirst ==
    /\ route = "print"
    /\ navPhase = "loading"
    /\ isMounted' = TRUE
    /\ LET savedState == loadDesignState(storedDesign)
       IN  designState' = IF urlDesign # NoDesign THEN urlDesign
                          ELSE IF savedState # NoDesign THEN savedState
                          ELSE defaultDesignState
    /\ labelDimensions' = [width |-> getNumberParam(urlLabel.width, I(6)),
                           height |-> getNumberParam(urlLabel.height, I(4))]
    /\ navPhase' = "ready"
    /\ navEvent' = "printLoad"
    /\ UNCHANGED <<route, arrival, storedDesign, pageRefreshing,
                   beforeunloadListener, urlDesign, lastSaved, isInitialized,
                   urlLabel, navFrozen>>

\* PrintPage: setIsMounted(true), then the load effect (saved state first,
\* URL parameters as fallback; label dimensions always from the URL)
PrintLoadEffect ==
    /\ route = "print"
    /\ navPhase = "loading"
    /\ isMounted' = TRUE
    /\ LET savedState == loadDesignState(storedDesign)
       IN  designState' = IF savedState # NoDesign THEN savedState
                                                   ELSE DesignFromUrl(urlDesign)
    /\ labelDimensions' = [width |-> getNumberParam(urlLabel.width, I(6)),
                           height |-> getNumberParam(urlLabel.height, I(4))]
    /\ navPhase' = "ready"
    /\ navEvent' = "printLoad"
    /\ UNCHANGED <<route, arrival, storedDesign, pageRefreshing,
                   beforeunloadListener, urlDesign, lastSaved, isInitialized,
                   urlLabel, navFrozen>>

\* PrintPage: <Link href="/">
ClickHomeLink ==
    /\ route = "print"
    /\ navPhase = "ready"
    /\ route' = "home"
    /\ navPhase' = "loading"
    /\ arrival' = "client"
    /\ navEvent' = "toHome"
    /\ urlDesign' = NoDesign
    /\ urlLabel' = NoLabelParams
    /\ designState' = defaultDesignState
    /\ isInitialized' = FALSE
    /\ isMounted' = FALSE
    /\ labelDimensions' = [width |-> I(6), height |-> I(4)]
    /\ UNCHANGED <<storedDesign, pageRefreshing, beforeunloadListener,
                   lastSaved, navFrozen>>

\* the browser reloads the document: the beforeunload listeners run, then a
\* fresh document loads the same URL
Reload ==
    /\ navPhase = "ready"
    /\ pageRefreshing' = (pageRefreshing \/ beforeunloadListener)
    /\ beforeunloadListener' = FALSE
    /\ navPhase' = "loading"
    /\ arrival' = "reload"
    /\ navEvent' = "reload"
    /\ designState' = defaultDesignState
    /\ isInitialized' = FALSE
    /\ isMounted' = FALSE
    /\ labelDimensions' = [width |-> I(6), height |-> I(4)]
    /\ UNCHANGED <<route, storedDesign, urlDesign, lastSaved, urlLabel,
                   navFrozen>>

NavNext ==
    \/ HomeMountEffect
    \/ HomeSaveEffect
    \/ \E d \in Designs : EditDesign(d)
    \/ handlePrintNavigation
    \/ PrintLoadEffect
    \/ ClickHomeLink
    \/ Reload

NavSpec == NavInit /\ [][NavNext]_vars

----------------------------------------------------------------------------
(* The mounted print page rasterising its label: the regenerate effect,    *)
(* the print button, and the toPng promises settling in any order.         *)

RasterInit ==
    /\ isMounted = TRUE
    /\ count = I(6)
    /\ currentPage = 1
    /\ labelDimensions = [width |-> I(6), height |-> I(4)]
    /\ lastEvent = "mount"
    /\ phase = "idle"
    /\ layoutRequest = IdleRequest
    /\ sheets = <<>>
    /\ printLayout = <<>>
    /\ NavIdle
    /\ RasterIdle
    /\ StorageIdle
    /\ EditorIdle

rasterFrozen == <<pageVars, layoutVars, navVars, storageVars, editorVars>>

\* generateLabelPng up to its await: toPng is called on the capture host as
\* rendered for inputs
StartGenerate(inputs, forPrint) ==
    /\ calls < MaxCalls
    /\ calls' = calls + 1
    /\ inFlight' = inFlight \cup {[id |-> calls + 1, inputs |-> inputs,
                                   forPrint |-> forPrint]}
    /\ lastCall' = [id |-> calls + 1, outcome |-> "pending"]

\* a design input changes (label width / height edit, load effect): the
\* regenerate effect calls generateLabelPng
ChangeInputs(d) ==
    /\ isMounted
    /\ d # rasterInputs
    /\ rasterInputs' = d
    /\ StartGenerate(d, FALSE)
    /\ UNCHANGED <<labelPngDataUrl, printed, rasterFrozen>>

\* print button onClick up to its await
ClickPrintButton ==
    /\ StartGenerate(rasterInputs, TRUE)
    /\ UNCHANGED <<rasterInputs, labelPngDataUrl, printed, rasterFrozen>>

\* toPng resolves: setLabelPngDataUrl(dataUrl); the print button's handler
\* then goes on to window.print()
ToPngResolves(c) ==
    /\ c \in inFlight
    /\ inFlight' = inFlight \ {c}
    /\ labelPngDataUrl' = toPng(c.inputs)
    /\ lastCall' = IF c.id = lastCall.id THEN [lastCall EXCEPT !.outcome = "ok"]
                                         ELSE lastCall
    /\ printed' = IF c.forPrint THEN PrintLabelContent(labelPngDataUrl')
                                ELSE printed
    /\ UNCHANGED <<rasterInputs, calls, rasterFrozen>>

\* toPng rejects: the catch block logs and leaves labelPngDataUrl as it is;
\* the print button's handler then goes on to window.print()
ToPngRejects(c) ==
    /\ c \in inFlight
    /\ inFlight' = inFlight \ {c}
    /\ lastCall' = IF c.id = lastCall.id
                   THEN [lastCall EXCEPT !.outcome = "failed"]
                   ELSE lastCall
    /\ printed' = IF c.forPrint THEN PrintLabelContent(labelPngDataUrl)
                                ELSE printed
    /\ UNCHANGED <<rasterInputs, labelPngDataUrl, calls, rasterFrozen>>

RasterNext ==
    \/ \E d \in 0..MaxInputs : ChangeInputs(d)
    \/ ClickPrintButton
    \/ \E c \in inFlight : ToPngResolves(c)
    \/ \E c \in inFlight : ToPngRejects(c)

RasterSpec == RasterInit /\ [][RasterNext]_vars

----------------------------------------------------------------------------
(* saveDesignState and loadDesignState called on any stored item.          *)

StorageInit ==
    /\ isMounted = FALSE
    /\ count = I(6)
    /\ currentPage = 1
    /\ labelDimensions = [width |-> I(6), height |-> I(4)]
    /\ lastEvent = "construct"
    /\ phase = "idle"
    /\ layoutRequest = IdleRequest
    /\ sheets = <<>>
    /\ printLayout = <<>>
    /\ NavIdle
    /\ RasterIdle
    /\ storageItem \in StorageItems
    /\ storageOp = "none"
    /\ writtenState = BlankObject
    /\ loadResult = NullResult
    /\ EditorIdle

storageFrozen == <<pageVars, layoutVars, navVars, rasterVars, editorVars>>

\* saveDesignState(state)
SaveItem(state) ==
    /\ storageItem' = JSONstringify(state)
    /\ writtenState' = state
    /\ storageOp' = "save"
    /\ UNCHANGED <<loadResult, storageFrozen>>

\* loadDesignState()
LoadStoredItem ==
    /\ loadResult' = LoadItem(storageItem)
    /\ storageOp' = "load"
    /\ UNCHANGED <<storageItem, writtenState, storageFrozen>>

StorageNext ==
    \/ \E state \in DesignStates : SaveItem(state)
    \/ LoadStoredItem

StorageSpec == StorageInit /\ [][StorageNext]_vars

----------------------------------------------------------------------------
(* The home page's label preview under mouse events.  A mouse-down reaches *)
(* the element under the pointer; every button raises it, and a button     *)
(* released outside the document or under a context menu raises no         *)
(* mouse-up, so mouse-downs may follow each other.                         *)

EditorInit ==
    /\ isMounted = FALSE
    /\ count = I(6)
    /\ currentPage = 1
    /\ labelDimensions = [width |-> I(6), height |-> I(4)]
    /\ lastEvent = "construct"
    /\ phase = "idle"
    /\ layoutRequest = IdleRequest
    /\ sheets = <<>>
    /\ printLayout = <<>>
    /\ route = "home"
    /\ navPhase = "ready"
    /\ arrival = "open"
    /\ navEvent = "none"
    /\ storedDesign = defaultDesignState
    /\ pageRefreshing = FALSE
    /\ beforeunloadListener = TRUE
    /\ designState = defaultDesignState
    /\ urlDesign = NoDesign
    /\ lastSaved = defaultDesignState
    /\ isInitialized = TRUE
    /\ urlLabel = NoLabelParams
    /\ RasterIdle
    /\ StorageIdle
    /\ EditorIdle

editorFrozen == <<pageVars, layoutVars, navVars, rasterVars, storageVars>>

\* client positions inside the container that mouse-move events report:
\* the middle of the container, the south-east corner of the text box as
\* first laid out, and the container's south-east corner
MousePoints == {<<I(300), I(225)>>, <<I(400), I(265)>>, <<I(598), I(448)>>}

\* handleMouseDown(e): mouse-down on the text box
handleMouseDown ==
    /\ OverTextBox(pointer, textPosition, textSize)
    /\ LET textPixelX == RMul(RDiv(textPosition.x, I(100)), containerRect.width)
           textPixelY == RMul(RDiv(textPosition.y, I(100)), containerRect.height)
       IN dragStart' =
              [x |-> RSub(RSub(pointer[1], containerRect.left), textPixelX),
               y |-> RSub(RSub(pointer[2], containerRect.top), textPixelY)]
    /\ isDragging' = TRUE
    /\ mouseEvent' = "mousedown-text"
    /\ UNCHANGED <<isResizing, resizeDirection, textPosition, textSize,
                   pointer, editorFrozen>>

\* handleResize(e, direction): mouse-down on a resize handle
handleResize(direction) ==
    /\ OverHandle(direction, pointer, textPosition, textSize)
    /\ isResizing' = TRUE
    /\ resizeDirection' = direction
    /\ dragStart' = [x |-> pointer[1], y |-> pointer[2]]
    /\ mouseEvent' = "mousedown-handle"
    /\ UNCHANGED <<isDragging, textPosition, textSize, pointer, editorFrozen>>

\* the position handleMouseMove passes to onTextPositionChange
DraggedPosition(e) ==
    LET x == RMul(RDiv(RSub(RSub(e[1], dragStart.x), containerRect.left),
                       containerRect.width), I(100))
        y == RMul(RDiv(RSub(RSub(e[2], dragStart.y), containerRect.top),
                       containerRect.height), I(100))
        scaledWidth == RMul(textSize.width, scaleFactor)
        scaledHeight == RMul(textSize.height, scaleFactor)
        halfWidthPercent ==
            RMul(RDiv(RDiv(scaledWidth, containerRect.width), I(2)), I(100))
        halfHeightPercent ==
            RMul(RDiv(RDiv(scaledHeight, containerRect.height), I(2)), I(100))
    IN [x |-> MathMax(halfWidthPercent,
                      MathMin(x, RSub(I(100), halfWidthPercent))),
        y |-> MathMax(halfHeightPercent,
                      MathMin(y, RSub(I(100), halfHeightPercent)))]

\* the size handleMouseMove passes to onTextSizeChange
ResizedSize(e) ==
    LET deltaX == RDiv(RSub(e[1], dragStart.x), scaleFactor)
        deltaY == RDiv(RSub(e[2], dragStart.y), scaleFactor)
        east == resizeDirection \in {"se", "ne"}
        south == resizeDirection \in {"se", "sw"}
        newWidth == MathMax(I(50), IF east THEN RAdd(textSize.width, deltaX)
                                   ELSE RSub(textSize.width, deltaX))
        newHeight == MathMax(I(30), IF south THEN RAdd(textSize.height, deltaY)
                                    ELSE RSub(textSize.height, deltaY))
        newFontSize == IntMax(10, IntMin(48, MathRound(RDiv(newWidth, I(8)))))
    IN [width |-> newWidth, height |-> newHeight, fontSize |-> newFontSize]

\* handleMouseMove(e): the pointer moves to e inside the container
handleMouseMove(e) ==
    /\ pointer' = e
    /\ textPosition' = IF isDragging THEN DraggedPosition(e) ELSE textPosition
    /\ IF isResizing
       THEN /\ RLe(ResizedSize(e).width, I(MaxTextSize))
            /\ RLe(ResizedSize(e).height, I(MaxTextSize))
            /\ textSize' = ResizedSize(e)
            /\ dragStart' = [x |-> e[1], y |-> e[2]]
       ELSE UNCHANGED <<textSize, dragStart>>
    /\ mouseEvent' = "mousemove"
    /\ UNCHANGED <<isDragging, isResizing, resizeDirection, editorFrozen>>

\* handleMouseUp(), as onMouseUp: a button is released over the container
handleMouseUp ==
    /\ pointer # Outside
    /\ isDragging' = FALSE
    /\ isResizing' = FALSE
    /\ mouseEvent' = "mouseup"
    /\ UNCHANGED <<resizeDirection, dragStart, textPosition, textSize,
                   pointer, editorFrozen>>

\* handleMouseUp(), as onMouseLeave: the pointer leaves the container
MouseLeave ==
    /\ pointer # Outside
    /\ pointer' = Outside
    /\ isDragging' = FALSE
    /\ isResizing' = FALSE
    /\ mouseEvent' = "mouseleave"
    /\ UNCHANGED <<resizeDirection, dragStart, textPosition, textSize,
                   editorFrozen>>

EditorNext ==
    \/ handleMouseDown
    \/ \E direction \in ResizeDirections : handleResize(direction)
    \/ \E e \in MousePoints : handleMouseMove(e)
    \/ handleMouseUp
    \/ MouseLeave

EditorSpec == EditorInit /\ [][EditorNext]_vars

----------------------------------------------------------------------------
(* Properties of the print layout's sheet sequence (LayoutSpec).           *)

requestCapacity == layoutRequest.maxLabelsPerRow * layoutRequest.maxLabelsPerCol

RECURSIVE SumLabels(_)
SumLabels(seq) ==
    IF seq = <<>> THEN Zero
    ELSE RAdd(seq[1].labelsOnThisPage, SumLabels(Tail(seq)))

\* C1: for an integer repeat count >= 1 the labels of the emitted sheets add up
\* to the repeat count, and every sheet but the last one is full.
C1_PaginationTotals ==
    (phase = "rendered" /\ IsInt(layoutRequest.repeatCount)
        /\ RGe(layoutRequest.repeatCount, One))
    => /\ SumLabels(sheets) = layoutRequest.repeatCount
       /\ \A i \in 1..(Len(sheets) - 1) :
              sheets[i].labelsOnThisPage = I(requestCapacity)

C1_Witness ==
    /\ phase = "rendered"
    /\ layoutRequest.repeatCount = I(20)
    /\ requestCapacity = 18
    /\ Len(sheets) = 2
    /\ sheets[1].labelsOnThisPage = I(18)
    /\ sheets[2].labelsOnThisPage = I(2)

\* C2: no emitted sheet has zero or fewer labels, for any repeat count >= 0,
\* a repeat count of 0 and exact multiples of the capacity included.
C2_NoEmptySheets ==
    phase = "rendered"
    => \A i \in 1..Len(sheets) : RGt(sheets[i].labelsOnThisPage, Zero)

C2_Witness ==
    /\ phase = "rendered"
    /\ layoutRequest.repeatCount = I(12)
    /\ requestCapacity = 6
    /\ Len(sheets) = 2
    /\ sheets[2].labelsOnThisPage = I(6)

----------------------------------------------------------------------------
(* Properties of the capacity and spacing calculation (Spec).              *)

previewPerRow == PreviewCalculateMaxLabelsPerRow(labelDimensions.width)
previewPerCol == PreviewCalculateMaxLabelsPerCol(labelDimensions.height)
printPerRow == PrintCalculateMaxLabelsPerRow(labelDimensions.width)
printPerCol == PrintCalculateMaxLabelsPerCol(labelDimensions.height)
keyPerRow == KeyCalculateMaxLabelsPerRow(labelDimensions.width)
keyPerCol == KeyCalculateMaxLabelsPerCol(labelDimensions.height)

\* C3: preview and print layout compute the same perRow, perColumn and the
\* same horizontal and vertical spacing for every label size.
C3_PreviewEqualsPrint ==
    /\ previewPerRow = printPerRow
    /\ previewPerCol = printPerCol
    /\ PreviewHorizontalSpacing(previewPerRow, labelDimensions.width)
           = PrintHorizontalSpacing(printPerRow, labelDimensions.width)
    /\ PreviewVerticalSpacing(previewPerCol, labelDimensions.height)
           = PrintVerticalSpacing(printPerCol, labelDimensions.height)

\* n labels fit along the axis and n + 1 do not
MaximalFit(n, labelLength, usableLength) ==
    /\ n >= 1
    /\ Fits(n, labelLength, usableLength)
    /\ ~Fits(n + 1, labelLength, usableLength)

\* C8: for 0 < labelLength < usableLength every capacity calculation (print,
\* preview, keyboard handler; per row and per column) returns the largest
\* n >= 1 with n*labelLength + (n-1)*minSpacing <= usableLength.
C8_CapacityMaximal ==
    /\ (RGt(labelDimensions.width, Zero) /\ RLt(labelDimensions.width, usableWidthCm))
       => /\ MaximalFit(printPerRow, labelDimensions.width, usableWidthCm)
          /\ MaximalFit(previewPerRow, labelDimensions.width, usableWidthCm)
          /\ MaximalFit(keyPerRow, labelDimensions.width, usableWidthCm)
    /\ (RGt(labelDimensions.height, Zero) /\ RLt(labelDimensions.height, usableHeightCm))
       => /\ MaximalFit(printPerCol, labelDimensions.height, usableHeightCm)
          /\ MaximalFit(previewPerCol, labelDimensions.height, usableHeightCm)
          /\ MaximalFit(keyPerCol, labelDimensions.height, usableHeightCm)

\* the gaps are at least the minimum and labels plus gaps fill the axis exactly
Redistributed(n, spacing, labelLength, usableLength) ==
    n > 1 => /\ RGe(spacing, minSpacing)
             /\ RAdd(RMul(I(n), labelLength), RMul(I(n - 1), spacing)) = usableLength

\* C9: whenever the count n on an axis is > 1, the redistributed spacing is
\* >= minSpacing and n*labelLength + (n-1)*spacing = usableLength, in the print
\* layout and in the preview; a label 6 cm wide gives perRow 2, spacing 4.8.
C9_SpacingRedistribution ==
    /\ Redistributed(printPerRow,
                     PrintHorizontalSpacing(printPerRow, labelDimensions.width),
                     labelDimensions.width, usableWidthCm)
    /\ Redistributed(printPerCol,
                     PrintVerticalSpacing(printPerCol, labelDimensions.height),
                     labelDimensions.height, usableHeightCm)
    /\ Redistributed(previewPerRow,
                     PreviewHorizontalSpacing(previewPerRow, labelDimensions.width),
                     labelDimensions.width, usableWidthCm)
    /\ Redistributed(previewPerCol,
                     PreviewVerticalSpacing(previewPerCol, labelDimensions.height),
                     labelDimensions.height, usableHeightCm)
    /\ labelDimensions.width = I(6)
       => /\ printPerRow = 2
          /\ PrintHorizontalSpacing(printPerRow, labelDimensions.width) = Rat(24, 5)

C9_Witness ==
    /\ isMounted
    /\ labelDimensions.width = I(6)
    /\ printPerRow = 2
    /\ printPerCol > 1
    /\ PrintHorizontalSpacing(printPerRow, labelDimensions.width) = Rat(24, 5)

\* C10: a label at least as long as the usable length on an axis gets count 1
\* and spacing 0 on that axis.
C10_DegenerateAxis ==
    /\ RGe(labelDimensions.width, usableWidthCm)
       => /\ printPerRow = 1
          /\ PrintHorizontalSpacing(printPerRow, labelDimensions.width) = Zero
    /\ RGe(labelDimensions.height, usableHeightCm)
       => /\ printPerCol = 1
          /\ PrintVerticalSpacing(printPerCol, labelDimensions.height) = Zero
    /\ RGe(labelDimensions.width, usableWidthCm)
       => /\ previewPerRow = 1
          /\ PreviewHorizontalSpacing(previewPerRow, labelDimensions.width) = Zero
    /\ RGe(labelDimensions.height, usableHeightCm)
       => /\ previewPerCol = 1
          /\ PreviewVerticalSpacing(previewPerCol, labelDimensions.height) = Zero

C10_Witness ==
    /\ isMounted
    /\ RGt(labelDimensions.height, usableHeightCm)
    /\ labelDimensions.width = usableWidthCm
    /\ printPerRow = 1
    /\ printPerCol = 1

----------------------------------------------------------------------------
(* Properties of the page cursor (Spec).                                   *)

totalPagesNow == PreviewTotalPages(count, labelDimensions)

NavKeys == {"ArrowLeft", "ArrowUp", "ArrowRight", "ArrowDown", "Home", "End"}

\* C4: in every reachable state 1 <= currentPage <= totalPages.
C4_CurrentPageInRange ==
    /\ 1 <= currentPage
    /\ currentPage <= totalPagesNow

\* C5: currentPage is reset to 1 whenever the repeat count changes and
\* whenever the label width or height changes.
C5_ResetOnChange ==
    [][(count' # count \/ labelDimensions' # labelDimensions)
          => currentPage' = 1]_vars

\* the page the claimed saturating navigation leads to
SaturatingPrev == IF currentPage = 1 THEN 1 ELSE currentPage - 1
SaturatingNext == IF currentPage = totalPagesNow THEN totalPagesNow
                  ELSE currentPage + 1

\* C6: prev at page 1 stays, next at totalPages stays, otherwise they move by
\* exactly one page; Home goes to 1 and End to totalPages from any page; for
\* the keyboard handler and for the Prev / Next buttons.
C6_NavigationSaturating ==
    [][/\ lastEvent' \in {"ArrowLeft", "ArrowUp", "clickPrev"}
          => currentPage' = SaturatingPrev
       /\ lastEvent' \in {"ArrowRight", "ArrowDown", "clickNext"}
          => currentPage' = SaturatingNext
       /\ lastEvent' = "Home" => currentPage' = 1
       /\ lastEvent' = "End" => currentPage' = totalPagesNow]_vars

\* C7: with totalPages <= 1 no navigation key changes currentPage and the
\* Prev / Next buttons do not exist.
C7_NoNavigationOnSinglePage ==
    [][totalPagesNow <= 1
          => /\ lastEvent' \in NavKeys => currentPage' = currentPage
             /\ lastEvent' \notin {"clickPrev", "clickNext"}]_vars

C7_Witness ==
    /\ lastEvent \in NavKeys
    /\ KeyTotalPages(count, labelDimensions) <= 1
    /\ totalPagesNow <= 1

----------------------------------------------------------------------------
(* Properties of the sheet grids and of the last sheet.                    *)

MathFloor(a) == a[1] \div a[2]

printPagesNow == PrintPages(count, PrintMaxPerPage(labelDimensions))
printLayoutNow == PrintLayout(printPagesNow, printPerRow)

\* rows is the least whole number of rows of cols columns holding labels
LeastRows(rows, cols, labels) ==
    /\ RGe(RMul(I(rows), cols), labels)
    /\ RLt(RMul(I(rows - 1), cols), labels)

\* repeatCount mod capacityPerSheet
Remainder(cnt, capacity) ==
    RSub(cnt, RMul(I(capacity), I(MathFloor(RDiv(cnt, I(capacity))))))

\* C11: each printed sheet has columns = min(perRow, labelsOnThisPage) and
\* rows = ceil(labelsOnThisPage / columns); with a remainder r, 0 < r < capacity,
\* the last sheet has min(perRow, r) columns (20 labels on 3 x 6: 3 x 6, then
\* 2 x 1); and the preview of a page uses the same columns and rows as the
\* printed sheet of that page.
C11_LastSheetReflow ==
    LET pages == printPagesNow
        layout == printLayoutNow
        capacity == PrintMaxPerPage(labelDimensions)
        r == Remainder(count, capacity)
    IN  /\ \A i \in 1..Len(pages) :
              /\ layout[i].actualCols
                     = MathMin(I(printPerRow), pages[i].labelsOnThisPage)
              /\ LeastRows(layout[i].actualRows, layout[i].actualCols,
                           pages[i].labelsOnThisPage)
        /\ (RGt(r, Zero) /\ RLt(r, I(capacity)))
           => layout[Len(pages)].actualCols = MathMin(I(printPerRow), r)
        /\ LET twenty == PrintLayout(PrintPages(I(20), 18), 3)
           IN  /\ Len(twenty) = 2
               /\ twenty[1].actualCols = I(3) /\ twenty[1].actualRows = 6
               /\ twenty[2].actualCols = I(2) /\ twenty[2].actualRows = 1
        /\ currentPage \in 1..Len(pages)
           => /\ PreviewPage(count, labelDimensions, currentPage).actualCols
                     = layout[currentPage].actualCols
              /\ PreviewPage(count, labelDimensions, currentPage).actualRows
                     = layout[currentPage].actualRows

\* C12: a repeat count k * capacity, k >= 1, gives exactly k sheets, each with
\* capacity labels, the last one flagged isLastPage (18 on 3 x 6: one sheet).
C12_ExactMultiple ==
    (/\ phase = "rendered"
     /\ IsInt(layoutRequest.repeatCount)
     /\ RGe(layoutRequest.repeatCount, One)
     /\ layoutRequest.repeatCount[1] % requestCapacity = 0)
    => /\ Len(sheets) = layoutRequest.repeatCount[1] \div requestCapacity
       /\ \A i \in 1..Len(sheets) : sheets[i].labelsOnThisPage = I(requestCapacity)
       /\ sheets[Len(sheets)].isLastPage
       /\ Len(printLayout) = Len(sheets)

C12_Witness ==
    /\ phase = "rendered"
    /\ layoutRequest.repeatCount = I(18)
    /\ layoutRequest.maxLabelsPerRow = 3
    /\ layoutRequest.maxLabelsPerCol = 6
    /\ Len(sheets) = 1
    /\ sheets[1].labelsOnThisPage = I(18)
    /\ sheets[1].isLastPage

\* C13: in a non-empty sheet sequence exactly the final sheet has isLastPage,
\* and exactly the other sheets carry the print-break class.
C13_OneLastPage ==
    (phase = "rendered" /\ Len(sheets) > 0)
    => \A i \in 1..Len(sheets) :
          /\ sheets[i].isLastPage <=> (i = Len(sheets))
          /\ (printLayout[i].className = "print-page print-break")
                 <=> (i # Len(sheets))

C13_Witness ==
    /\ phase = "rendered"
    /\ Len(sheets) = 3
    /\ printLayout[1].className = "print-page print-break"
    /\ printLayout[2].className = "print-page print-break"
    /\ printLayout[3].className = "print-page "
    /\ sheets[3].isLastPage

----------------------------------------------------------------------------
(* Input normalisation, termination and degenerate label sizes.            *)

\* C14: the repeat count is always an integer and at least 1, whatever is
\* typed into "Repeat count" (empty, zero, negative or fractional).
C14_CountPositiveInteger == IsInt(count) /\ RGe(count, One)

\* C15: label dimensions taken from the URL are never <= 0: a missing,
\* non-numeric, zero or negative labelWidth / labelHeight falls back to 6 / 4.
C15_UrlDimensionsPositive ==
    isMounted => /\ RGt(labelDimensions.width, Zero)
                 /\ RGt(labelDimensions.height, Zero)

\* C16: every capacity search stops within its loop ceiling: at most 49
\* iterations per row in print, 9 per row in the preview and the keyboard
\* handler, 19 per column, and the count returned never exceeds the ceiling.
C16_SearchBounded ==
    LET w == labelDimensions.width
        h == labelDimensions.height
    IN  /\ PrintRowIterations(w) <= 49 /\ printPerRow \in 1..50
        /\ PrintColIterations(h) <= 19 /\ printPerCol \in 1..20
        /\ PreviewRowIterations(w) <= 9 /\ previewPerRow \in 1..10
        /\ PreviewColIterations(h) <= 19 /\ previewPerCol \in 1..20
        /\ KeyRowIterations(w) <= 9 /\ keyPerRow \in 1..10
        /\ KeyColIterations(h) <= 19 /\ keyPerCol \in 1..20

C16_Witness ==
    /\ labelDimensions = [width |-> Rat(1, 5), height |-> Rat(1, 5)]
    /\ PrintRowIterations(labelDimensions.width) = 49
    /\ printPerRow = 50
    /\ PreviewRowIterations(labelDimensions.width) = 9
    /\ previewPerRow = 10
    /\ PrintColIterations(labelDimensions.height) = 19
    /\ printPerCol = 20

\* C17: a label at least as large as the usable area on both axes gives one
\* label per sheet: capacity 1, as many sheets as the repeat count, each with
\* 1 label, 1 column and 1 row.
C17_OneLabelPerSheet ==
    (/\ RGe(labelDimensions.width, usableWidthCm)
     /\ RGe(labelDimensions.height, usableHeightCm))
    => /\ PrintMaxPerPage(labelDimensions) = 1
       /\ I(Len(printPagesNow)) = count
       /\ \A i \in 1..Len(printPagesNow) :
             /\ printPagesNow[i].labelsOnThisPage = One
             /\ printLayoutNow[i].actualCols = One
             /\ printLayoutNow[i].actualRows = 1

\* max(1, floor((usableLength + minSpacing) / (labelLength + minSpacing)))
ClosedForm(usableLength, labelLength) ==
    IntMax(1, MathFloor(RDiv(RAdd(usableLength, minSpacing),
                             RAdd(labelLength, minSpacing))))

\* C20: the bounded search returns the same count as the closed form, on both
\* axes, in the print layout and in the preview.
C20_SearchEqualsClosedForm ==
    /\ printPerRow = ClosedForm(usableWidthCm, labelDimensions.width)
    /\ printPerCol = ClosedForm(usableHeightCm, labelDimensions.height)
    /\ previewPerRow = ClosedForm(usableWidthCm, labelDimensions.width)
    /\ previewPerCol = ClosedForm(usableHeightCm, labelDimensions.height)

----------------------------------------------------------------------------
(* Saved design state across reloads and navigation (NavSpec).             *)

\* C18: a client-side navigation that mounts the home page or the print page
\* never clears the stored design state, and the page shows the design that
\* was saved last.
C18_ClientNavigationKeepsDesign ==
    (arrival = "client" /\ navEvent \in {"homeMount", "printLoad"})
    => /\ loadDesignState(storedDesign) = lastSaved
       /\ lastSaved # NoDesign => designState = lastSaved

----------------------------------------------------------------------------
(* Sheet ranges, sheet grids and the page counts of the three copies.      *)

\* C25: the emitted sheets partition the label sequence in order: the first
\* starts at 0, each next one starts where the previous one ends, the last
\* ends at the repeat count, and every sheet has startIndex < endIndex.
C25_SheetsPartition ==
    (phase = "rendered" /\ Len(sheets) > 0)
    => /\ sheets[1].startIndex = Zero
       /\ \A i \in 2..Len(sheets) : sheets[i].startIndex = sheets[i - 1].endIndex
       /\ sheets[Len(sheets)].endIndex = layoutRequest.repeatCount
       /\ \A i \in 1..Len(sheets) : RLt(sheets[i].startIndex, sheets[i].endIndex)

C25_Witness ==
    /\ phase = "rendered"
    /\ layoutRequest.repeatCount = I(20)
    /\ requestCapacity = 8
    /\ Len(sheets) = 3
    /\ sheets[2].startIndex = I(8)
    /\ sheets[2].endIndex = I(16)
    /\ sheets[3].endIndex = I(20)

\* C26: every emitted sheet's grid fits the capacity and holds exactly its
\* labels: 1 <= columns <= perRow, 1 <= rows <= perColumn,
\* rows * columns >= labels and (rows - 1) * columns < labels.
C26_GridFitsCapacity ==
    \A i \in 1..Len(printPagesNow) :
        /\ RGe(printLayoutNow[i].actualCols, One)
        /\ RLe(printLayoutNow[i].actualCols, I(printPerRow))
        /\ printLayoutNow[i].actualRows \in 1..printPerCol
        /\ LeastRows(printLayoutNow[i].actualRows, printLayoutNow[i].actualCols,
                     printPagesNow[i].labelsOnThisPage)

\* C27: the page count of the preview and of the keyboard handler equal the
\* number of sheets the print layout emits, and the preview of page p shows
\* as many labels as the p-th printed sheet holds.
C27_PageCountsAgree ==
    /\ PreviewTotalPages(count, labelDimensions) = Len(printPagesNow)
    /\ KeyTotalPages(count, labelDimensions) = Len(printPagesNow)
    /\ \A p \in 1..Len(printPagesNow) :
          PreviewPage(count, labelDimensions, p).labelsOnCurrentPage
              = printPagesNow[p].labelsOnThisPage

DimensionsInRange(dims) ==
    /\ RGe(dims.width, One) /\ RLe(dims.width, I(20))
    /\ RGe(dims.height, One) /\ RLe(dims.height, I(20))

\* C30: from a label with both dimensions in [1, 20] cm, an edit of
\* "Width (cm)" or "Height (cm)" leaves both dimensions in [1, 20] and
\* strictly positive, and keeps the width : height ratio.
C30_DimensionsStayInRange ==
    [][(/\ DimensionsInRange(labelDimensions)
        /\ lastEvent' \in {"changeWidth", "changeHeight"})
       => /\ DimensionsInRange(labelDimensions')
          /\ RGt(labelDimensions'.width, Zero)
          /\ RGt(labelDimensions'.height, Zero)
          /\ RMul(labelDimensions'.width, labelDimensions.height)
                 = RMul(labelDimensions.width, labelDimensions'.height)]_vars

----------------------------------------------------------------------------
(* Loading and saving at mount (NavSpec).                                  *)

\* C22: on mount the print page takes the design from the saved state when
\* loadDesignState returns one and from the URL parameters (defaults where
\* absent) only otherwise; the label dimensions always come from the URL
\* parameters labelWidth / labelHeight (defaults 6 x 4).
C22_PrintLoadSources ==
    (navEvent = "printLoad")
    => /\ storedDesign \in Designs => designState = storedDesign
       /\ (storedDesign \notin Designs /\ urlDesign \in Designs)
              => designState = urlDesign
       /\ (storedDesign \notin Designs /\ urlDesign = NoDesign)
              => designState = defaultDesignState
       /\ labelDimensions.width
              = (IF urlLabel.width.kind = "num" THEN urlLabel.width.num ELSE I(6))
       /\ labelDimensions.height
              = (IF urlLabel.height.kind = "num" THEN urlLabel.height.num ELSE I(4))

C22_Witness ==
    /\ navEvent = "printLoad"
    /\ storedDesign = 2
    /\ urlDesign = 1
    /\ designState = 2
    /\ urlLabel.width.kind = "num"
    /\ urlLabel.height.kind = "text"
    /\ labelDimensions = [width |-> I(24), height |-> I(4)]

\* C23: the home page never saves before the mount effect has loaded the
\* saved state (a save happens only with isInitialized set and writes the
\* current design), so a saved design is not overwritten while the home page
\* mounts without a reload; once initialized, every design change is saved.
C23_NoSaveDuringInitialLoad ==
    [][/\ (lastSaved' # lastSaved \/ navEvent' = "homeSave")
              => (isInitialized /\ storedDesign' = designState)
       /\ (/\ route = "home"
           /\ arrival # "reload"
           /\ navPhase \in {"loading", "effects", "mounted"}
           /\ storedDesign \in Designs)
              => storedDesign' = storedDesign
       /\ (route' = "home" /\ navPhase' = "ready")
              => storedDesign' = designState']_vars

----------------------------------------------------------------------------
(* Rasterisation (RasterSpec).                                             *)

\* C21: whenever the generateLabelPng call started last has failed, the print
\* layout renders each label with the live LabelPreview and not an image.
C21_FailureFallsBackToDom ==
    lastCall.outcome = "failed"
        => PrintLabelContent(labelPngDataUrl) = "LabelPreview"

\* C28: once every generateLabelPng call in flight has completed (the one
\* started last successfully), labelPngDataUrl holds the image of the most
\* recent design inputs, whatever the order of completion.
C28_LatestInputsWin ==
    (inFlight = {} /\ lastCall.outcome = "ok")
        => labelPngDataUrl = toPng(rasterInputs)

----------------------------------------------------------------------------
(* loadDesignState (StorageSpec).                                          *)

\* every field present with its type, the pattern one of the four
FullStructure(o) ==
    /\ o.text.t = "string"
    /\ o.logoColor.t = "string"
    /\ o.pattern \in {Str("none"), Str("dots"), Str("grid"), Str("diagonal")}
    /\ o.patternColor.t = "string"
    /\ o.textColor.t = "string"
    /\ o.textPosition.t = "object"
    /\ o.textPosition.p.x.t = "number"
    /\ o.textPosition.p.y.t = "number"
    /\ o.textSize.t = "object"
    /\ o.textSize.p.width.t = "number"
    /\ o.textSize.p.height.t = "number"
    /\ o.textSize.p.fontSize.t = "number"

\* C24: loadDesignState never throws and returns null or a record passing
\* the full structure check: null when nothing is stored, when the text is
\* not valid JSON, or when a field is missing or of the wrong type; a state
\* written by saveDesignState is returned unchanged.
C24_LoadValidates ==
    storageOp = "load"
    => /\ ~loadResult.threw
       /\ loadResult.isNull \/ FullStructure(loadResult.state)
       /\ storageItem.kind = "none" => loadResult.isNull
       /\ storageItem.json \in {"invalid", "null", "number"} => loadResult.isNull
       /\ (storageItem.json = "object" /\ ~FullStructure(storageItem.object))
              => loadResult.isNull
       /\ (storageItem.json = "object" /\ FullStructure(storageItem.object))
              => (~loadResult.isNull /\ loadResult.state = storageItem.object)
       /\ writtenState \in DesignStates
              => (~loadResult.isNull /\ loadResult.state = writtenState)

C24_Witness ==
    /\ storageOp = "load"
    /\ writtenState \in DesignStates
    /\ writtenState.pattern = Str("grid")
    /\ ~loadResult.isNull
    /\ loadResult.state = writtenState

----------------------------------------------------------------------------
(* Dragging and resizing the text box (EditorSpec).                        *)

\* C29: the text box is never being dragged and resized at the same time,
\* and after a mouse-up or a mouse-leave it is neither.
C29_NeverDragAndResize ==
    /\ ~(isDragging /\ isResizing)
    /\ mouseEvent \in {"mouseup", "mouseleave"}
           => ~isDragging /\ ~isResizing

====
